---- MODULE Spec2Model ----
(***************************************************************************)
(* BufferGenerator of synthizer-c (include/synthizer/generators/buffer.hpp)*)
(* as a state machine: the property slots the control threads write, the   *)
(* generator's own fields, and one action per operation.  generateBlock is *)
(* one action covering the Configuration Gate, the generation path and the *)
(* looping / finish logic.                                                 *)
(*                                                                         *)
(* Scaling.  Positions are fixed point with BUFFER_POS_MULTIPLIER parts    *)
(* per frame.  Pitch and speed are held in units of 1/MULTIPLIER, so that  *)
(* the code's  MULTIPLIER * ratio  (truncated to an integer) is the stored *)
(* value itself.  Output samples produced by the two classic paths are     *)
(* described by the source frame(s) they were computed from.               *)
(***************************************************************************)
EXTENDS Integers, Sequences, FiniteSets, TLC

\* ------------------------------------------------------------------ bounds
\* config::BLOCK_SIZE (256 in the library), scaled down.
BLOCK_SIZE == 2
\* config::BUFFER_POS_MULTIPLIER (a power of two in the library), scaled down.
MULTIPLIER == 4
\* Buffers hold 1..MaxLen frames.
MaxLen == 5
\* chunk_size / BLOCK_SIZE (2048 / 256 in the library), scaled down.
ChunkBlocks == 2
\* SOUND_TOUCH_SAFE_PRIMING_BLOCKS (20 in the library), scaled down.
PrimingBlocks == 2
\* Length of the pitch crossfade window in samples (64 in the library), scaled down.
CrossfadeSamples == 3
\* How many consecutive blocks without engine output count as "several".
DryBlocks == 2

\* --------------------------------------------------------------- constants
NoSeek == -1
NoBuffer == 0
NoTap == -1
EngineTap == -2

Min(a, b) == IF a < b THEN a ELSE b
Max(a, b) == IF a > b THEN a ELSE b
Abs(a) == IF a < 0 THEN -a ELSE a

\* Buffer b holds b frames; every second buffer is stereo.
Buffers == 1..MaxLen
getLengthInFrames(b) == b
getChannels(b) == IF b = NoBuffer THEN 0 ELSE 1 + (b % 2)

\* Pitch / speed ratios, in units of 1/MULTIPLIER: a slow fractional ratio,
\* unity and a fast fractional ratio.
Unity == MULTIPLIER
Rates == {1, Unity, 2 * MULTIPLIER + 1}
\* Values a playback-position write can request (in frames), beyond the end included.
SeekFrames == 0..(MaxLen + 1)
\* What the caller's output block holds, in every position, before the call.
PreVals == {0, 1}
\* chunk_size of the speed path, in frames.
chunk_size == ChunkBlocks * BLOCK_SIZE

Modes == {"classic", "time_stretch"}
Paths == {"none", "noBend", "pitchBend", "pitchOnly", "speedOnly", "combined"}

VARIABLES
  \* property slots, written by control threads and read by the audio thread
  buffer,              \* SYZ_P_BUFFER: NoBuffer or a buffer
  buffer_changed,      \* the slot was written since the last acquireBuffer
  playback_position,   \* SYZ_P_PLAYBACK_POSITION write not yet acquired (frames), or NoSeek
  looping,
  pitch_bend,
  speed_multiplier,
  pitch_bend_mode,
  \* BufferGenerator fields
  reader,                       \* the buffer bound to BufferReader
  finished,
  scaled_position_in_frames,
  soundtouch_processor,
  last_pitch_value,
  crossfade_processor,
  crossfade_samples_remaining,
  speed_processor,
  last_speed_value,
  combined_processor,
  last_combined_speed_value,
  last_combined_pitch_value,
  combined_applied,             \* tempo and pitch the combined processor is set to
  speed_input_accumulator,
  speed_priming_blocks,
  \* observation of the run
  blk,                 \* what the last generateBlock did
  finished_events,     \* finished events sent since the last seek / buffer change
  written,             \* frames the no-bend path wrote since playback started at frame 0
  pure,                \* every block since then was a non-looping no-bend block
  dry_blocks,          \* consecutive speed-only blocks, primed, that drained nothing
  requested,           \* the frame of the last playback-position write by a control
                       \* thread that no block has acquired yet, or NoSeek
  unbound_seek,        \* that write was made while no buffer was assigned
  lingered,            \* what startGeneratorLingering returned, if it was the last call
  \* a second BufferGenerator driven by the same audio thread
  other,               \* its speed, its last_speed_value, and whether it ran last
  \* one StreamHandle and the threads that try to consume it
  consumed,            \* StreamHandleBase::consumed, an int of HandleBits bits
  caller,              \* per thread: the value its fetch_add returned, or NotCalling
  handle_calls,        \* markConsumed calls started
  handle_returned,     \* consumeStreamHandle calls that returned the stream
  handle_thrown,       \* markConsumed calls that threw
  \* computePitchBendParams called on its own
  params_in,           \* the arguments of the last call
  params_out,          \* what it returned
  \* arithmetic on a reader of zero frames
  fault,               \* what the last block evaluated: "length_minus_1", "division_by_zero"
  \* one loop of generateBlock, pass by pass
  cur_loop,            \* the loop's locals and the passes it has made
  \* an AAC decoder and the caller of writeSamplesInterleaved
  aac                  \* codec frames decoded, frames held back, frames delivered

propVars == <<buffer, buffer_changed, playback_position, looping, pitch_bend,
              speed_multiplier, pitch_bend_mode>>
stretchVars == <<soundtouch_processor, last_pitch_value, crossfade_processor,
                 crossfade_samples_remaining, speed_processor, last_speed_value,
                 combined_processor, last_combined_speed_value,
                 last_combined_pitch_value, combined_applied,
                 speed_input_accumulator, speed_priming_blocks>>
genVars == <<reader, finished, scaled_position_in_frames>>
obsVars == <<blk, finished_events, written, pure, dry_blocks, requested, unbound_seek,
             lingered>>
peerVars == <<other>>
handleVars == <<consumed, caller, handle_calls, handle_returned, handle_thrown>>
paramVars == <<params_in, params_out>>
\* The generator proper, and what stands beside it.
generatorVars == <<propVars, genVars, stretchVars, obsVars, peerVars>>
faultVars == <<fault>>
loopVars == <<cur_loop>>
aacVars == <<aac>>
sideVars == <<handleVars, paramVars, faultVars, loopVars, aacVars>>
vars == <<generatorVars, sideVars>>

\* ------------------------------------------------------- stretch engines
\* A SoundTouch instance: whether it was constructed, whether frames were put
\* into it since its last clear(), and whether any of those frames was read from
\* a buffer that has since been replaced.  How many frames receiveSamples hands
\* out is the engine's business: anything from 0 to what was asked for once it
\* holds input, and 0 while it holds none.
\* feeds counts the putSamples calls that brought frames since the last clear(),
\* up to the priming threshold.
\* ch is the channel count given to setChannels, which every processor gets
\* once, where it is constructed.
NoEngine == [ex |-> FALSE, held |-> FALSE, stale |-> FALSE, feeds |-> 0, ch |-> 0]
NewEngine == [ex |-> TRUE, held |-> FALSE, stale |-> FALSE, feeds |-> 0, ch |-> 0]
setChannels(e, c) == [e EXCEPT !.ch = c]
clear(e) == [e EXCEPT !.held = FALSE, !.stale = FALSE, !.feeds = 0]
putSamples(e, k, isStale) ==
  [e EXCEPT !.held = e.held \/ k > 0, !.stale = e.stale \/ (isStale /\ k > 0),
            !.feeds = IF k > 0 THEN Min(@ + 1, PrimingBlocks) ELSE @]
CanReceive(e, max, r) == r >= 0 /\ r <= (IF e.held THEN max ELSE 0)
receiveSamples(e, r) == e
\* The tempo and pitch of a SoundTouch instance that was constructed and never
\* given setTempo or setPitchSemiTones: 1.0 both.
DefaultSettings == [speed |-> Unity, pitch |-> Unity]

\* The accumulation buffer, oldest frames first: stale frames were read from a
\* buffer that has since been replaced.
EmptyAcc == [stale |-> 0, fresh |-> 0]
AccSize(a) == a.stale + a.fresh

\* |a - b| > num/den for ratios a, b held in units of 1/MULTIPLIER.
DiffersBy(a, b, num, den) == Abs(a - b) * den > num * MULTIPLIER

\* ------------------------------------------------------------ observation
NoOut == [i \in 1..BLOCK_SIZE |-> [base |-> 0, lo |-> NoTap, w2 |-> 0]]
\* The second generator as constructed: speed 1, last_speed_value -1.0.
NoPeer == [speed |-> Unity, lsv |-> -Unity, ranLast |-> FALSE]

NoBlk == [block |-> FALSE, ran |-> FALSE, pre |-> 0, entryFin |-> FALSE,
          entryHeld |-> {}, peerRan |-> FALSE, owed |-> NoSeek, changed |-> FALSE, req |-> NoSeek,
          bound |-> NoBuffer, gatePos |-> 0, gateFin |-> FALSE, gateClean |-> TRUE,
          wasFinished |-> FALSE, path |-> "none", adv |-> 0, loopingAt |-> FALSE,
          looped |-> 0, fin |-> 0, reads |-> {}, out |-> NoOut,
          fedStale |-> FALSE, outStale |-> FALSE, got |-> 0, gotOld |-> 0,
          feeds |-> 0, reconf |-> FALSE, applied |-> DefaultSettings,
          madeXf |-> FALSE, engineBad |-> FALSE, nonFinite |-> FALSE,
          reqUnbound |-> FALSE]

\* ----------------------------------------------------------- stream handle
\* StreamHandleBase::consumed is a std::atomic<int>; the model keeps its width
\* at HandleBits bits, so that it wraps after HandleModulus increments as the
\* 32-bit counter does after 2^32.
HandleBits == 3
HandleModulus == 2 ^ HandleBits
\* Threads that hold the same handle, and the calls they may start in total:
\* one more than it takes to bring the counter back to its first value.
HandleThreads == 3
Callers == 1 .. HandleThreads
MaxHandleCalls == HandleModulus + 1
NotCalling == -1

\* ------------------------------------------------- computePitchBendParams
\* Before the first call: no arguments, nothing returned.
NoCall == [scaled_position |-> 0, delta |-> 0, buffer_len_no_zero |-> 0, looping |-> FALSE]
NoParams == [iterations |-> 0, offset |-> 0, span_start |-> 0, span_len |-> 0,
             include_implicit_zero |-> FALSE]

\* No timeout to report: the last call was not startGeneratorLingering.
NoLinger == [called |-> FALSE, num |-> 0, den |-> 1]

\* ------------------------------------------------- the loops of generateBlock
\* No loop has been entered.
NoLoop ==
  [kind |-> "none", done |-> TRUE, passes |-> 0, entry |-> 0,
   available_samples |-> 0, finished |-> FALSE,
   received_samples |-> 0, total_received |-> 0, i |-> 0, loop_count |-> 0]

\* ------------------------------------------------- AAC decoders
\* No decoder has been opened.
\* decoded: PCM frames the codec has produced; base: where the codec frame in
\* interleaved_buffer starts in the stream; delivered: the PCM frames written
\* to the caller's output, each named by its place in the stream.
NoDecoder ==
  [kind |-> "none", decoded |-> 0, base |-> 0, interleaved_buffer_pos |-> 0,
   interleaved_buffer_frames_ready |-> 0,
   delivered |-> <<>>, requested |-> 0, returned |-> 0]
\* PCM frames in one codec frame, and codec frames in the stream.
CodecFrameSize == 2
CodecFrames == 4
StreamFrames == CodecFrames * CodecFrameSize
\* The frame counts a caller asks for.
RequestFrames == 0 .. (CodecFrameSize + 1)
\* The PCM frames from..(from + count - 1) of the stream, in order.
Frames(from, count) == [k \in 1 .. count |-> from + k - 1]

Init ==
  /\ buffer = NoBuffer
  /\ buffer_changed = FALSE
  /\ playback_position = NoSeek
  /\ looping = FALSE
  /\ pitch_bend = Unity
  /\ speed_multiplier = Unity
  /\ pitch_bend_mode = "classic"
  /\ reader = NoBuffer
  /\ finished = FALSE
  /\ scaled_position_in_frames = 0
  /\ soundtouch_processor = NoEngine
  /\ last_pitch_value = -Unity
  /\ crossfade_processor = NoEngine
  /\ crossfade_samples_remaining = 0
  /\ speed_processor = NoEngine
  /\ last_speed_value = -Unity
  /\ combined_processor = NoEngine
  /\ last_combined_speed_value = -Unity
  /\ last_combined_pitch_value = -Unity
  /\ combined_applied = DefaultSettings
  /\ speed_input_accumulator = EmptyAcc
  /\ speed_priming_blocks = 0
  /\ blk = NoBlk
  /\ finished_events = 0
  /\ written = <<>>
  /\ pure = FALSE
  /\ dry_blocks = 0
  /\ requested = NoSeek
  /\ unbound_seek = FALSE
  /\ lingered = NoLinger
  /\ consumed = 0
  /\ caller = [t \in Callers |-> NotCalling]
  /\ handle_calls = 0
  /\ handle_returned = 0
  /\ handle_thrown = 0
  /\ params_in = NoCall
  /\ params_out = NoParams
  /\ fault = {}
  /\ cur_loop = NoLoop
  /\ aac = NoDecoder
  /\ other = NoPeer

\* ------------------------------------------------------ property writes
\* A property write is not a block: it leaves no observation of one.
Observe == /\ blk' = NoBlk
           /\ lingered' = NoLinger
           /\ UNCHANGED sideVars
           /\ UNCHANGED <<finished_events, written, pure, dry_blocks>>

Unrequested == UNCHANGED <<requested, unbound_seek>>

SetBuffer(b) ==
  /\ buffer' = b
  /\ buffer_changed' = TRUE
  /\ UNCHANGED <<playback_position, looping, pitch_bend, speed_multiplier, pitch_bend_mode>>
  /\ UNCHANGED <<genVars, stretchVars, peerVars>>
  /\ Observe /\ Unrequested

SetPlaybackPosition(f) ==
  /\ playback_position' = f
  /\ UNCHANGED <<buffer, buffer_changed, looping, pitch_bend, speed_multiplier, pitch_bend_mode>>
  /\ UNCHANGED <<genVars, stretchVars, peerVars>>
  /\ Observe /\ requested' = f
  /\ unbound_seek' = (buffer = NoBuffer)

SetLooping(l) ==
  /\ l # looping
  /\ looping' = l
  /\ UNCHANGED <<buffer, buffer_changed, playback_position, pitch_bend, speed_multiplier,
                 pitch_bend_mode>>
  /\ UNCHANGED <<genVars, stretchVars, peerVars>>
  /\ Observe /\ Unrequested

SetPitchBend(p) ==
  /\ p # pitch_bend
  /\ pitch_bend' = p
  /\ UNCHANGED <<buffer, buffer_changed, playback_position, looping, speed_multiplier,
                 pitch_bend_mode>>
  /\ UNCHANGED <<genVars, stretchVars, peerVars>>
  /\ Observe /\ Unrequested

SetSpeedMultiplier(s) ==
  /\ s # speed_multiplier
  /\ speed_multiplier' = s
  /\ UNCHANGED <<buffer, buffer_changed, playback_position, looping, pitch_bend,
                 pitch_bend_mode>>
  /\ UNCHANGED <<genVars, stretchVars, peerVars>>
  /\ Observe /\ Unrequested

SetPitchBendMode(m) ==
  /\ m # pitch_bend_mode
  /\ pitch_bend_mode' = m
  /\ UNCHANGED <<buffer, buffer_changed, playback_position, looping, pitch_bend,
                 speed_multiplier>>
  /\ UNCHANGED <<genVars, stretchVars, peerVars>>
  /\ Observe /\ Unrequested

\* ------------------------------------------------------------ BufferGenerator
getPosInSamples(scaled_position) == scaled_position \div MULTIPLIER

floorByPowerOfTwo(x, m) == x - (x % m)

\* Variant: a seek that does not clamp.
seek_unclamped(new_pos_samples, length) == new_pos_samples
\* Variant: a seek that clamps to the one-past-end frame instead of the last frame.
seek_clamp_to_end(new_pos_samples, length) ==
  IF new_pos_samples >= length THEN length ELSE new_pos_samples
\* seek(): the frame the requested frame is clamped to, for a reader of `length` frames.
seek_clamp(new_pos_samples, length) ==
  IF new_pos_samples >= length THEN length - 1 ELSE new_pos_samples

\* seek() on a generator whose reader has no buffer (the buffer property was set
\* to none): BufferReader is not part of the modelled sources, so the position it
\* leaves is any of these.  No block is generated until a buffer is bound again.
UnboundSeekPositions == {0, (MaxLen + 1) * MULTIPLIER}

\* The frame a buffer change seeks to: the pending playback position, or 0.
GateSeekTarget(pending) == IF pending # NoSeek THEN pending ELSE 0

\* Variant: a buffer change that leaves the processors as they are.
GateEngineKept(e) == e
\* handlePropertyConfig() on a buffer change: every existing processor is cleared
\* (the crossfade processor is destroyed) and its cached values are invalidated.
GateEngine(e) == IF e.ex THEN clear(e) ELSE e
GateLast(e, last) == IF e.ex THEN -Unity ELSE last

\* Frames held by the accumulator all stem from the replaced buffer after a swap.
AgeAcc(a) == [stale |-> a.stale + a.fresh, fresh |-> 0]

\* State after handlePropertyConfig() and the acquirePlaybackPosition() / seek()
\* of generateBlock (lines 180-193).  u is the position an unbound seek leaves.
Gate(u) ==
  LET changed == buffer_changed
      bound == IF changed THEN buffer ELSE reader
      proceed == buffer # NoBuffer /\ getChannels(buffer) # 0
      \* a pending position is consumed by the gate on a buffer change, and
      \* otherwise by generateBlock itself once the block is not skipped
      applies == playback_position # NoSeek /\ (changed \/ proceed)
      seeks == changed \/ applies
      target == IF changed THEN GateSeekTarget(playback_position) ELSE playback_position
      pos == IF ~seeks THEN scaled_position_in_frames
             ELSE IF bound = NoBuffer THEN u
             ELSE seek_clamp(target, getLengthInFrames(bound)) * MULTIPLIER
  IN [changed |-> changed,
      proceed |-> proceed,
      bound |-> bound,
      applied |-> IF applies THEN playback_position ELSE NoSeek,
      seeks |-> seeks,
      pos |-> pos,
      fin |-> IF seeks THEN FALSE ELSE finished,
      st |-> IF changed THEN GateEngine(soundtouch_processor) ELSE soundtouch_processor,
      lpv |-> IF changed THEN GateLast(soundtouch_processor, last_pitch_value)
              ELSE last_pitch_value,
      xf |-> IF changed THEN NoEngine ELSE crossfade_processor,
      xfr |-> IF changed /\ crossfade_processor.ex THEN 0 ELSE crossfade_samples_remaining,
      sp |-> IF changed THEN GateEngine(speed_processor) ELSE speed_processor,
      lsv |-> IF changed THEN GateLast(speed_processor, last_speed_value)
              ELSE last_speed_value,
      cb |-> IF changed THEN GateEngine(combined_processor) ELSE combined_processor,
      lcs |-> IF changed THEN GateLast(combined_processor, last_combined_speed_value)
              ELSE last_combined_speed_value,
      lcp |-> IF changed THEN GateLast(combined_processor, last_combined_pitch_value)
              ELSE last_combined_pitch_value,
      cba |-> combined_applied,
      acc |-> IF changed THEN AgeAcc(speed_input_accumulator) ELSE speed_input_accumulator,
      prim |-> speed_priming_blocks]

\* Every processor that exists holds nothing after the gate.
EnginesClean(g) ==
  /\ ~g.st.held /\ ~g.st.stale
  /\ ~g.xf.ex
  /\ ~g.sp.held /\ ~g.sp.stale
  /\ ~g.cb.held /\ ~g.cb.stale

\* The condition under which the read is shortened near the end (all paths but pitch bend).
NearEnd(pos, length, loop) == getPosInSamples(pos) + BLOCK_SIZE > length /\ ~loop

\* will_read_frames: length - position - 1 is unsigned, so a position at the
\* end wraps to a huge value, which the min() brings back to BLOCK_SIZE.
WillReadFrames(pos, length, loop) ==
  IF NearEnd(pos, length, loop)
  THEN LET w == length - getPosInSamples(pos) - 1
       IN IF w < 0 THEN BLOCK_SIZE ELSE Min(w, BLOCK_SIZE)
  ELSE BLOCK_SIZE

\* std::fill(output, ..., 0.0f) at line 189: what each position holds afterwards.
FilledBase(pre) == 0

\* generateNoPitchBend: output[i] += frame (pos + i), for i < will_read_frames.
generateNoPitchBend(pos, length, loop, base) ==
  LET wr == WillReadFrames(pos, length, loop)
      first == getPosInSamples(pos)
  IN [out |-> [i \in 1..BLOCK_SIZE |->
                 IF i <= wr THEN [base |-> base, lo |-> first + i - 1, w2 |-> 0]
                 ELSE [base |-> base, lo |-> NoTap, w2 |-> 0]],
      reads |-> {first + i - 1 : i \in 1..wr},
      frames |-> [i \in 1..wr |-> first + i - 1]]

\* Variant: the interpolation loop always runs a full block.
PitchBendIterationsFull(scaled_position, delta, buffer_len_no_zero, loop) ==
  IF delta = 0 \/ scaled_position >= buffer_len_no_zero THEN 0 ELSE BLOCK_SIZE
\* computePitchBendParams: the number of iterations of the interpolation loop.
PitchBendIterations(scaled_position, delta, buffer_len_no_zero, loop) ==
  IF delta = 0 \/ scaled_position >= buffer_len_no_zero THEN 0
  ELSE IF ~loop /\ scaled_position + BLOCK_SIZE * delta >= buffer_len_no_zero
  THEN LET remaining_data == buffer_len_no_zero - scaled_position - 1
       IN IF remaining_data % delta = 0 THEN remaining_data \div delta
          ELSE remaining_data \div delta + 1
  ELSE BLOCK_SIZE

\* computePitchBendParams.  span_len is only computed when iterations > 0: with
\* zero iterations generatePitchBend returns before using it.
computePitchBendParams(scaled_position, delta, buffer_len_no_zero, loop) ==
  LET iterations == PitchBendIterations(scaled_position, delta, buffer_len_no_zero, loop)
      offset == scaled_position - floorByPowerOfTwo(scaled_position, MULTIPLIER)
  IN [iterations |-> iterations,
      offset |-> offset,
      span_start |-> scaled_position \div MULTIPLIER,
      span_len |-> IF iterations = 0 THEN 0
                   ELSE (offset + (iterations - 1) * delta) \div MULTIPLIER + 2,
      include_implicit_zero |-> ~loop]

\* generatePitchBend: output[i] = w1 * frame lower + w2 * frame (lower + 1).
generatePitchBend(pos, delta, length, loop, base) ==
  LET params == computePitchBendParams(pos, delta, length * MULTIPLIER, loop)
      eff(i) == params.offset + delta * (i - 1)
      lower(i) == params.span_start + floorByPowerOfTwo(eff(i), MULTIPLIER) \div MULTIPLIER
  IN [out |-> [i \in 1..BLOCK_SIZE |->
                 IF i <= params.iterations
                 THEN [base |-> 0, lo |-> lower(i), w2 |-> eff(i) % MULTIPLIER]
                 ELSE [base |-> base, lo |-> NoTap, w2 |-> 0]],
      reads |-> UNION {{lower(i), lower(i) + 1} : i \in 1..params.iterations},
      params |-> params]

\* Looping / finish logic (lines 424-443).
LoopCount(pos, adv, length) == (pos + adv + MULTIPLIER) \div (MULTIPLIER * length)

\* Variant: the finish test holds in every non-looping block.
ReachesEndAtOnce(pos, adv, length) == TRUE

\* Variant: the finish test asks for an advance that goes beyond the end.
ReachesPastEnd(pos, adv, length) == pos + adv > length * MULTIPLIER
\* The finish test of lines 433-435.
ReachesEnd(pos, adv, length) == pos + adv + MULTIPLIER >= length * MULTIPLIER

\* Variant: the finished branch forgets to set the flag.
FinishedNotSet == FALSE
\* What the finished branch leaves: the flag, and the position "exactly at the end".
FinishedAfterEnd == TRUE
\* Variant: the finished branch clamps to the length that counts the implicit zero.
EndPositionWithZero(length) == (length + 1) * MULTIPLIER
\* Variant: the finished branch clamps to the last frame.
EndPositionLastFrame(length) == (length - 1) * MULTIPLIER
\* Variant: the finished branch rewinds to the first frame.
EndPositionRewound(length) == 0

EndPosition(length) == length * MULTIPLIER

Advance(pos, adv, length, loop, fin) ==
  IF loop
  THEN [pos |-> (pos + adv) % (length * MULTIPLIER), fin |-> fin,
        looped |-> LoopCount(pos, adv, length), finEv |-> 0]
  ELSE IF fin = FALSE /\ ReachesEnd(pos, adv, length)
  THEN [pos |-> EndPosition(length), fin |-> FinishedAfterEnd, looped |-> 0, finEv |-> 1]
  ELSE [pos |-> pos + adv, fin |-> fin, looped |-> 0, finEv |-> 0]

\* Variant: no early return for a finished generator.
NeverSkips(fin) == FALSE
\* Line 196: a finished generator does nothing more in this block.
SkipsWhenFinished(fin) == fin = TRUE

\* ----------------------------------------------------- time-stretch paths
\* Variant: a block that got any engine output writes the whole temporary buffer.
EngineOutWholeBuffer(count, base) ==
  [i \in 1..BLOCK_SIZE |->
     [base |-> base, lo |-> IF count > 0 THEN EngineTap ELSE NoTap, w2 |-> 0]]
\* Output of a block that adds engine output to its first `count` frames
\* (output[i] += ...: what the block held stays in the sum).
EngineOut(count, base) ==
  [i \in 1..BLOCK_SIZE |->
     [base |-> base, lo |-> IF i <= count THEN EngineTap ELSE NoTap, w2 |-> 0]]

ReadSpan(pos, wr) == {getPosInSamples(pos) + i - 1 : i \in 1..wr}

\* Variant: the crossfade processor is kept until the count has gone below zero.
CrossfadeNeverDone(remaining) == remaining < 0
\* The clean-up test after the mixing loop (lines 1071-1073).
CrossfadeDone(remaining) == remaining <= 0

\* generateTimeStretchPitch.  r1, r2: frames the main processor returns to its
\* two receiveSamples calls; cr: frames the crossfade processor returns.
generateTimeStretchPitch(g, length, base, r1, r2, cr) ==
  LET created == ~g.st.ex
      st0 == IF created THEN setChannels(NewEngine, getChannels(g.bound)) ELSE g.st
      lpv0 == IF created THEN pitch_bend ELSE g.lpv
      reconf == DiffersBy(pitch_bend, lpv0, 1, 1000)
      makeXf == reconf /\ lpv0 > 0
      xf0 == IF makeXf THEN setChannels(NewEngine, getChannels(g.bound)) ELSE g.xf
      xfr0 == IF makeXf THEN CrossfadeSamples ELSE g.xfr
      st1 == IF reconf THEN clear(st0) ELSE st0
      wr == WillReadFrames(g.pos, length, looping)
      st2 == putSamples(st1, wr, FALSE)
      st3 == receiveSamples(st2, r1)
      again == r1 < BLOCK_SIZE \div 2
      st4 == IF again THEN putSamples(st3, wr, FALSE) ELSE st3
      st5 == receiveSamples(st4, r2)
      xfActive == xf0.ex /\ xfr0 > 0
      xf1 == IF xfActive THEN putSamples(xf0, wr, FALSE) ELSE xf0
      xf2 == receiveSamples(xf1, cr)
      xfr1 == IF xfr0 > 0 /\ cr > 0 THEN Max(xfr0 - BLOCK_SIZE, 0) ELSE xfr0
      mixed == Max(r1 + r2, IF xfr0 > 0 THEN cr ELSE 0)
  IN [ok |-> /\ CanReceive(st2, BLOCK_SIZE, r1)
             /\ IF again THEN CanReceive(st4, BLOCK_SIZE - r1, r2) ELSE r2 = 0
             /\ IF xfActive THEN CanReceive(xf1, BLOCK_SIZE, cr) ELSE cr = 0,
      path |-> "pitchOnly",
      st |-> st5, lpv |-> IF reconf THEN pitch_bend ELSE lpv0,
      xf |-> IF CrossfadeDone(xfr1) THEN NoEngine ELSE xf2, xfr |-> xfr1,
      madeXf |-> makeXf,
      sp |-> g.sp, lsv |-> g.lsv,
      cb |-> g.cb, lcs |-> g.lcs, lcp |-> g.lcp, cba |-> g.cba,
      reconf |-> FALSE, applied |-> g.cba,
      acc |-> g.acc, prim |-> g.prim,
      out |-> EngineOut(mixed, base),
      reads |-> ReadSpan(g.pos, wr),
      fedStale |-> FALSE,
      outStale |-> (st4.stale /\ r1 + r2 > 0) \/ (xf1.stale /\ cr > 0),
      got |-> r1 + r2, gotOld |-> IF xfr0 > 0 THEN cr ELSE 0, feeds |-> st2.feeds,
      frames |-> <<>>]

\* The chunk-feed loop of the speed path: how many frames leave the accumulator
\* and in how many putSamples calls, for `available` accumulated frames.
FeedFrames(available, fin) ==
  IF fin THEN available ELSE (available \div chunk_size) * chunk_size
FeedCalls(available, fin) ==
  IF fin /\ available % chunk_size # 0 THEN available \div chunk_size + 1
  ELSE available \div chunk_size

\* Variant: the last applied speed is cached per audio thread, not per generator.
LastSpeedOfThread(g) == IF g.peer.ranLast THEN g.peer.lsv ELSE g.lsv
\* this->last_speed_value as line 237 reads it: the generator's own member.
LastSpeedValue(g) == g.lsv

\* receiveSamples(out, max) takes the frames at the head of the engine's output
\* queue: as many as are ready, up to max.
Dequeued(ready, max) == Min(ready, max)
\* Variant: the drain loop goes on for as long as the engine returns frames.
DrainContinuesWhileAny(received_samples, total_received) == received_samples > 0
\* The condition of the drain loop (line 353).
DrainContinues(received_samples, total_received) ==
  received_samples > 0 /\ total_received < BLOCK_SIZE
\* The drain loop of lines 353-389 on an engine with `ready` frames of output:
\* every pass asks for BLOCK_SIZE frames and adds to the output those that
\* fall inside the block.  total: frames dequeued; written: frames added.
RECURSIVE DrainLoop(_, _, _, _)
DrainLoop(ready, received_samples, total_received, added) ==
  IF ~DrainContinues(received_samples, total_received)
  THEN [total |-> total_received, written |-> added]
  ELSE LET r == Dequeued(ready, BLOCK_SIZE)
       IN IF r = 0 THEN [total |-> total_received, written |-> added]
          ELSE DrainLoop(ready - r, r, total_received + r,
                         added + Min(r, Max(BLOCK_SIZE - total_received, 0)))

\* The speed-only branch inside generateBlock (lines 226-410).  d: frames of
\* output the engine has ready when the drain loop starts.
generateSpeedOnly(g, length, base, d) ==
  LET created == ~g.sp.ex
      sp0 == IF created THEN setChannels(NewEngine, getChannels(g.bound)) ELSE g.sp
      lsv0 == IF created THEN speed_multiplier ELSE LastSpeedValue(g)
      acc0 == IF created THEN EmptyAcc ELSE g.acc
      prim0 == IF created THEN 0 ELSE g.prim
      need_tempo_change == DiffersBy(speed_multiplier, lsv0, 1, 100)
      need_pitch_reset == g.lpv # Unity
      clears == (need_tempo_change \/ need_pitch_reset)
                /\ (need_pitch_reset \/ DiffersBy(speed_multiplier, lsv0, 1, 10))
      sp1 == IF clears THEN clear(sp0) ELSE sp0
      prim1 == IF clears THEN 0 ELSE prim0
      near_end == NearEnd(g.pos, length, looping)
      wr == WillReadFrames(g.pos, length, looping)
      padding == IF near_end /\ wr < BLOCK_SIZE THEN BLOCK_SIZE - wr ELSE 0
      acc1 == [acc0 EXCEPT !.fresh = @ + wr + padding]
      restart == prim1 = 0 /\ g.pos = 0
      acc2 == IF restart THEN EmptyAcc ELSE acc1
      sp2 == IF restart THEN clear(sp1) ELSE sp1
      fed == FeedFrames(AccSize(acc2), g.fin)
      fedOld == Min(fed, acc2.stale)
      acc3 == [stale |-> acc2.stale - fedOld, fresh |-> acc2.fresh - (fed - fedOld)]
      sp3 == putSamples(sp2, fed, fedOld > 0)
      prim2 == Min(prim1 + FeedCalls(AccSize(acc2), g.fin), PrimingBlocks)
      drains == prim2 >= PrimingBlocks
      dr == IF drains THEN DrainLoop(d, 1, 0, 0) ELSE [total |-> 0, written |-> 0]
      sp4 == receiveSamples(sp3, dr.total)
  IN [ok |-> IF drains THEN CanReceive(sp3, 2 * BLOCK_SIZE - 1, d) ELSE d = 0,
      path |-> "speedOnly",
      st |-> g.st, lpv |-> IF need_pitch_reset THEN Unity ELSE g.lpv,
      xf |-> g.xf, xfr |-> g.xfr,
      madeXf |-> FALSE,
      sp |-> sp4, lsv |-> IF need_tempo_change THEN speed_multiplier ELSE lsv0,
      cb |-> g.cb, lcs |-> g.lcs, lcp |-> g.lcp, cba |-> g.cba,
      reconf |-> FALSE, applied |-> g.cba,
      acc |-> acc3, prim |-> prim2,
      out |-> EngineOut(dr.written, base),
      reads |-> ReadSpan(g.pos, wr),
      fedStale |-> fedOld > 0,
      outStale |-> sp3.stale /\ dr.total > 0,
      got |-> dr.total, gotOld |-> 0, feeds |-> prim2,
      frames |-> <<>>]

\* generateTimeStretchSpeed with pitch # 1: the combined processor.  (Its other
\* branch needs pitch = 1, with which generateBlock never calls it.)
generateTimeStretchSpeed(g, length, base, r) ==
  LET created == ~g.cb.ex
      cb0 == IF created THEN setChannels(NewEngine, getChannels(g.bound)) ELSE g.cb
      lcs0 == IF created THEN speed_multiplier ELSE g.lcs
      lcp0 == IF created THEN pitch_bend ELSE g.lcp
      reconf == DiffersBy(speed_multiplier, lcs0, 1, 100)
                \/ DiffersBy(pitch_bend, lcp0, 1, 1000)
      cb1 == IF reconf THEN clear(cb0) ELSE cb0
      cba0 == IF created THEN DefaultSettings ELSE g.cba
      cba1 == IF reconf THEN [speed |-> speed_multiplier, pitch |-> pitch_bend]
              ELSE cba0
      wr == WillReadFrames(g.pos, length, looping)
      cb2 == putSamples(cb1, wr, FALSE)
      cb3 == receiveSamples(cb2, r)
  IN [ok |-> CanReceive(cb2, BLOCK_SIZE, r),
      path |-> "combined",
      st |-> g.st, lpv |-> g.lpv, xf |-> g.xf, xfr |-> g.xfr,
      sp |-> g.sp, lsv |-> g.lsv,
      cb |-> cb3,
      lcs |-> IF reconf THEN speed_multiplier ELSE lcs0,
      lcp |-> IF reconf THEN pitch_bend ELSE lcp0,
      cba |-> cba1, reconf |-> reconf, applied |-> cba0, madeXf |-> FALSE,
      acc |-> g.acc, prim |-> g.prim,
      out |-> EngineOut(r, base),
      reads |-> ReadSpan(g.pos, wr),
      fedStale |-> FALSE,
      outStale |-> cb2.stale /\ r > 0,
      got |-> r, gotOld |-> 0, feeds |-> cb2.feeds,
      frames |-> <<>>]

\* The two classic paths leave the stretch state alone.
Classic(g, name, res) ==
  [ok |-> TRUE, path |-> name,
   st |-> g.st, lpv |-> g.lpv, xf |-> g.xf, xfr |-> g.xfr,
   sp |-> g.sp, lsv |-> g.lsv, cb |-> g.cb, lcs |-> g.lcs, lcp |-> g.lcp,
   cba |-> g.cba, reconf |-> FALSE, applied |-> g.cba, madeXf |-> FALSE,
   acc |-> g.acc, prim |-> g.prim,
   out |-> res.out, reads |-> res.reads, fedStale |-> FALSE, outStale |-> FALSE,
   got |-> 0, gotOld |-> 0, feeds |-> 0,
   frames |-> IF name = "noBend" THEN res.frames ELSE <<>>]

\* Variant: only the part of the rate above unity advances the position.
PositionIncrementAboveUnity ==
  Max((IF pitch_bend_mode = "time_stretch" THEN speed_multiplier ELSE pitch_bend) - Unity, 0)
\* scaled_position_increment (lines 205-211).
PositionIncrement ==
  IF pitch_bend_mode = "time_stretch" THEN speed_multiplier ELSE pitch_bend

\* Variant: the speed multiplier also decides the path in classic mode.
SelectPathBySpeed ==
  IF pitch_bend # Unity /\ speed_multiplier # Unity
  THEN IF pitch_bend_mode = "time_stretch" THEN "combined" ELSE "pitchBend"
  ELSE IF pitch_bend # Unity
  THEN IF pitch_bend_mode = "time_stretch" THEN "pitchOnly" ELSE "pitchBend"
  ELSE IF speed_multiplier # Unity
  THEN IF pitch_bend_mode = "time_stretch" THEN "speedOnly" ELSE "pitchBend"
  ELSE "noBend"
\* The generation path generateBlock takes (lines 215-422).
SelectPath ==
  IF pitch_bend_mode = "time_stretch"
  THEN IF pitch_bend # Unity /\ speed_multiplier # Unity THEN "combined"
       ELSE IF pitch_bend # Unity THEN "pitchOnly"
       ELSE IF speed_multiplier # Unity THEN "speedOnly"
       ELSE "noBend"
  ELSE IF pitch_bend = Unity THEN "noBend" ELSE "pitchBend"

RunPath(g, length, base, r1, r2, r3) ==
  LET path == SelectPath
  IN IF path = "combined" THEN generateTimeStretchSpeed(g, length, base, r1)
     ELSE IF path = "pitchOnly" THEN generateTimeStretchPitch(g, length, base, r1, r2, r3)
     ELSE IF path = "speedOnly" THEN generateSpeedOnly(g, length, base, r1)
     ELSE IF path = "noBend"
     THEN Classic(g, "noBend", generateNoPitchBend(g.pos, length, looping, base))
     ELSE Classic(g, "pitchBend",
                  generatePitchBend(g.pos, PositionIncrement, length, looping, base))

\* What a block on `path` does besides arithmetic on its own memory.  The speed
\* branch logs in every block (SYNTHIZER_LOG_INFO at line 345 or 404: printf and
\* an std::ofstream opened on synthizerlog.txt, with DEBUG_SYNTHIZER_SPEED defined
\* at line 28) and builds strings and a temporary vector (lines 348, 404); the
\* pitch and combined paths construct their sample vectors in every block (lines
\* 1003, 1014 and 747, 758).  The two classic paths do neither.
PathEffects(path) ==
  IF path = "speedOnly" THEN {"io", "alloc"}
  ELSE IF path = "pitchOnly" THEN {"alloc"}
  ELSE IF path = "combined"
  THEN \* applyAntiAliasingFilter logs when pitch > 1.3 (lines 688-691)
       IF 10 * pitch_bend > 13 * MULTIPLIER THEN {"io", "alloc"} ELSE {"alloc"}
  ELSE {}

\* ------------------------------------------------------------ generateBlock
\* Variant: the output block is cleared before the buffer and channels are checked.
ClearedFirst(pre) == [i \in 1..BLOCK_SIZE |-> [base |-> 0, lo |-> NoTap, w2 |-> 0]]
\* A block that returns at line 181 or 187 has not touched the output.
Untouched(pre) == [i \in 1..BLOCK_SIZE |-> [base |-> pre, lo |-> NoTap, w2 |-> 0]]

\* The processors that hold frames as the block starts.
HeldAtEntry ==
  {n \in {"pitch", "crossfade", "speed", "combined"} :
     \/ n = "pitch" /\ soundtouch_processor.held
     \/ n = "crossfade" /\ crossfade_processor.held
     \/ n = "speed" /\ speed_processor.held
     \/ n = "combined" /\ combined_processor.held}

GateBlk(g, pre) ==
  [NoBlk EXCEPT !.block = TRUE, !.pre = pre,
                !.entryFin = finished, !.entryHeld = HeldAtEntry,
                !.peerRan = other.ranLast, !.owed = requested,
                !.reqUnbound = g.applied # NoSeek /\ unbound_seek, !.changed = g.changed, !.req = g.applied,
                !.bound = g.bound, !.gatePos = g.pos, !.gateFin = g.fin,
                !.gateClean = EnginesClean(g), !.out = Untouched(pre)]

\* Playback counts as started at frame 0 when a seek of this block put it there.
PlaybackStart(g) ==
  IF g.seeks THEN [pure |-> g.bound # NoBuffer /\ g.pos = 0, written |-> <<>>]
  ELSE [pure |-> pure, written |-> written]

\* What the engines can return in a block that takes `path` from gate state g:
\* the choices (r1, r2, r3) are drawn here, the path checks them against what
\* the engines hold.
Returns(path) ==
  IF path = "pitchOnly"
  THEN (0..BLOCK_SIZE) \X (0..BLOCK_SIZE) \X (0..BLOCK_SIZE)
  ELSE IF path = "speedOnly" THEN (0..(2 * BLOCK_SIZE - 1)) \X {0} \X {0}
  ELSE IF path = "combined" THEN (0..BLOCK_SIZE) \X {0} \X {0}
  ELSE {<<0, 0, 0>>}

\* The end-of-block setPlaybackPosition(position, false) of line 445 stores the
\* generator's position in the property without marking it changed.  A write by
\* a control thread that landed after the acquire of lines 191-193 (mid # NoSeek)
\* has marked it changed, and its value is the one line 445 overwrites: what is
\* left pending is a seek to the generator's own frame.
WriteBack(pending, mid, pos) ==
  IF mid # NoSeek THEN getPosInSamples(pos) ELSE pending

\* Whether a non-finite sample (NaN or infinity) reaches the output block when
\* the engine's return holds one (bad).  The speed branch tests every sample with
\* isnan / isinf and replaces it by 0 before clamping (lines 369-375); the pitch
\* path (lines 1058-1069) and the combined branch (lines 759-767) multiply what
\* the engine returned into the output as it is.
OutputNonFinite(path, bad, got, gotOld) ==
  IF path \in {"pitchOnly", "combined"} THEN bad /\ (got > 0 \/ gotOld > 0)
  ELSE FALSE

\* generateBlock of this generator; o is what the second generator last did, mid
\* the frame of a playback-position write that lands while the block runs, bad
\* whether the frames the engine returns in this block hold a non-finite sample.
GenerateBlockBeside(o, mid, bad) ==
  \E pre \in PreVals :
  \E u \in IF buffer_changed /\ buffer = NoBuffer THEN UnboundSeekPositions ELSE {0} :
  \E g \in {Gate(u) @@ [peer |-> o]} :
  \E start \in {PlaybackStart(g)} :
    LET length == getLengthInFrames(g.bound)
        adv == PositionIncrement * BLOCK_SIZE
        a == Advance(g.pos, adv, length, looping, g.fin)
        runs == g.proceed /\ ~SkipsWhenFinished(g.fin)
    IN /\ buffer_changed' = FALSE
       /\ requested' = IF mid # NoSeek THEN mid
                       ELSE IF g.applied # NoSeek THEN NoSeek ELSE requested
       /\ lingered' = NoLinger
       /\ UNCHANGED sideVars
       /\ unbound_seek' = IF mid # NoSeek THEN buffer = NoBuffer
                          ELSE IF g.applied # NoSeek THEN FALSE ELSE unbound_seek
       /\ UNCHANGED <<buffer, looping, pitch_bend, speed_multiplier, pitch_bend_mode>>
       /\ reader' = g.bound
       /\ IF ~runs
          THEN \* skipped at the gate (no buffer), or finished: only the gate acted
               /\ mid = NoSeek
               /\ playback_position' = IF g.applied # NoSeek THEN NoSeek ELSE playback_position
               /\ finished' = g.fin
               /\ scaled_position_in_frames' = g.pos
               /\ soundtouch_processor' = g.st
               /\ last_pitch_value' = g.lpv
               /\ crossfade_processor' = g.xf
               /\ crossfade_samples_remaining' = g.xfr
               /\ speed_processor' = g.sp
               /\ last_speed_value' = g.lsv
               /\ combined_processor' = g.cb
               /\ last_combined_speed_value' = g.lcs
               /\ last_combined_pitch_value' = g.lcp
               /\ combined_applied' = g.cba
               /\ speed_input_accumulator' = g.acc
               /\ speed_priming_blocks' = g.prim
               /\ blk' = IF g.proceed
                         THEN [GateBlk(g, pre) EXCEPT !.ran = TRUE, !.wasFinished = TRUE,
                                 !.loopingAt = looping,
                                 !.out = [i \in 1..BLOCK_SIZE |->
                                            [base |-> FilledBase(pre), lo |-> NoTap, w2 |-> 0]]]
                         ELSE GateBlk(g, pre)
               /\ finished_events' = IF g.seeks THEN 0 ELSE finished_events
               /\ written' = start.written
               /\ pure' = start.pure
               /\ dry_blocks' = 0
          ELSE \E r \in Returns(SelectPath) :
               \E p \in {RunPath(g, length, FilledBase(pre), r[1], r[2], r[3])} :
               /\ p.ok
               /\ playback_position' =
                    WriteBack(IF g.applied # NoSeek THEN NoSeek ELSE playback_position,
                              mid, a.pos)
               /\ finished' = a.fin
               /\ scaled_position_in_frames' = a.pos
               /\ soundtouch_processor' = p.st
               /\ last_pitch_value' = p.lpv
               /\ crossfade_processor' = p.xf
               /\ crossfade_samples_remaining' = p.xfr
               /\ speed_processor' = p.sp
               /\ last_speed_value' = p.lsv
               /\ combined_processor' = p.cb
               /\ last_combined_speed_value' = p.lcs
               /\ last_combined_pitch_value' = p.lcp
               /\ combined_applied' = p.cba
               /\ speed_input_accumulator' = p.acc
               /\ speed_priming_blocks' = p.prim
               /\ blk' = [GateBlk(g, pre) EXCEPT !.ran = TRUE, !.path = p.path,
                            !.adv = adv, !.loopingAt = looping, !.looped = a.looped,
                            !.fin = a.finEv, !.reads = p.reads, !.out = p.out,
                            !.fedStale = p.fedStale, !.outStale = p.outStale,
                            !.got = p.got, !.gotOld = p.gotOld, !.feeds = p.feeds,
                            !.reconf = p.reconf, !.applied = p.applied,
                            !.madeXf = p.madeXf,
                            !.engineBad = bad /\ p.got + p.gotOld > 0,
                            !.nonFinite = OutputNonFinite(p.path, bad, p.got, p.gotOld)]
               /\ dry_blocks' = IF p.path = "speedOnly" /\ p.feeds >= PrimingBlocks /\ p.got = 0
                                THEN Min(dry_blocks + 1, DryBlocks) ELSE 0
               /\ finished_events' =
                    Min((IF g.seeks THEN 0 ELSE finished_events) + a.finEv, 2)
               /\ IF start.pure /\ p.path = "noBend" /\ ~looping
                     /\ Len(start.written) <= MaxLen
                  THEN /\ written' = start.written \o p.frames
                       /\ pure' = TRUE
                  ELSE /\ written' = <<>>
                       /\ pure' = FALSE

GenerateBlock ==
  /\ GenerateBlockBeside(other, NoSeek, FALSE)
  /\ other' = [other EXCEPT !.ranLast = FALSE]

\* getPlaybackPosition(), in frames: the value a control thread wrote, or else
\* the one the generator stored at line 170 or 445, its own frame index.
getPlaybackPosition ==
  IF playback_position # NoSeek THEN playback_position
  ELSE getPosInSamples(scaled_position_in_frames)

\* Variant: the timeout is always divided by the pitch bend.
LingerRateByPitch == pitch_bend
\* The divisor of lines 1150-1156.
LingerRate ==
  IF pitch_bend_mode = "time_stretch" THEN speed_multiplier ELSE pitch_bend

\* The value startGeneratorLingering returns (lines 1138-1156), as the fraction
\* num / den of frame times at unit rate.
LingerTimeout ==
  LET pos == getPlaybackPosition
      remaining == getLengthInFrames(buffer) - pos
  IN IF buffer = NoBuffer THEN [called |-> TRUE, num |-> 0, den |-> 1]
     ELSE IF remaining < 0 THEN [called |-> TRUE, num |-> 0, den |-> 1]
     ELSE [called |-> TRUE, num |-> remaining * MULTIPLIER, den |-> LingerRate]

startGeneratorLingering ==
  /\ looping' = FALSE
  /\ lingered' = LingerTimeout
  /\ UNCHANGED sideVars
  /\ blk' = NoBlk
  /\ UNCHANGED <<buffer, buffer_changed, playback_position, pitch_bend, speed_multiplier,
                 pitch_bend_mode>>
  /\ UNCHANGED <<genVars, stretchVars, peerVars>>
  /\ UNCHANGED <<finished_events, written, pure, dry_blocks>>
  /\ Unrequested

\* A stretch block in which the engine hands out a non-finite sample.
GenerateBlockNonFinite ==
  /\ SelectPath \in {"pitchOnly", "speedOnly", "combined"}
  /\ GenerateBlockBeside(other, NoSeek, TRUE)
  /\ blk'.engineBad
  /\ other' = [other EXCEPT !.ranLast = FALSE]

\* A block during which a control thread writes the playback position.
GenerateBlockDuringWrite(f) ==
  /\ GenerateBlockBeside(other, f, FALSE)
  /\ other' = [other EXCEPT !.ranLast = FALSE]

\* The second generator: a write of its speed property, and its generateBlock,
\* which touches its own fields only (lines 119-146 are instance members).
OtherSetSpeedMultiplier(s) ==
  /\ s # other.speed
  /\ other' = [other EXCEPT !.speed = s]
  /\ UNCHANGED <<propVars, genVars, stretchVars, obsVars, sideVars>>

OtherGenerateBlock ==
  /\ other' = [other EXCEPT !.lsv = other.speed, !.ranLast = TRUE]
  /\ UNCHANGED <<propVars, genVars, stretchVars, obsVars, sideVars>>

\* ------------------------------------------------ a buffer of zero frames
\* A buffer that holds no frame (one channel).  BufferReader::getLengthInFrames
\* is 0 for it, and the generator's arithmetic on lengths and positions is on
\* std::uint64_t: the model keeps PosBits bits of it.
EmptyBuffer == -1
PosBits == 6
PosModulus == 2 ^ PosBits

\* seek() (lines 164-168) on a reader of `length` frames, in unsigned
\* arithmetic: the position it stores, and whether it evaluated length - 1
\* with length = 0.
SeekWrapped(new_pos_samples, length) ==
  LET clamps == new_pos_samples >= length
      frame == IF clamps THEN (length - 1) % PosModulus ELSE new_pos_samples
  IN [pos |-> (frame * MULTIPLIER) % PosModulus,
      underflow |-> clamps /\ length = 0]

\* generateBlock at pitch bend 1.0 in classic mode while the buffer property
\* holds a zero-frame buffer.  The gate binds it and seeks (lines 1093, 1124-1128),
\* or generateBlock applies a pending position (lines 191-193); an unfinished
\* generator then runs the no-bend path, which finds nothing to add, and the
\* looping / finish logic (lines 424-443) with length 0.  Dividing by
\* BUFFER_POS_MULTIPLIER * 0 is undefined: the position is left at any of the
\* values a trap or a wrapped result can leave.
GenerateBlockEmpty ==
  /\ buffer = EmptyBuffer
  /\ pitch_bend = Unity /\ pitch_bend_mode = "classic"
  /\ LET seeks == buffer_changed \/ playback_position # NoSeek
         target == IF playback_position # NoSeek THEN playback_position ELSE 0
         sk == SeekWrapped(target, 0)
         pos0 == IF seeks THEN sk.pos ELSE scaled_position_in_frames
         fin0 == IF seeks THEN FALSE ELSE finished
         runs == ~SkipsWhenFinished(fin0)
         adv == PositionIncrement * BLOCK_SIZE
         events0 == IF seeks THEN 0 ELSE finished_events
     IN /\ buffer_changed' = FALSE
        /\ reader' = EmptyBuffer
        /\ playback_position' = NoSeek
        /\ fault' = (IF seeks /\ sk.underflow THEN {"length_minus_1"} ELSE {})
                      \cup (IF runs /\ looping THEN {"division_by_zero"} ELSE {})
        /\ IF ~runs
           THEN /\ finished' = fin0
                /\ scaled_position_in_frames' = pos0
                /\ finished_events' = events0
           ELSE IF looping
           THEN /\ finished' = fin0
                /\ scaled_position_in_frames' \in {0, pos0}
                /\ finished_events' = events0
           ELSE \* (pos0 + adv + MULTIPLIER) % PosModulus >= 0 * MULTIPLIER holds
                /\ finished' = FinishedAfterEnd
                /\ scaled_position_in_frames' = EndPosition(0)
                /\ finished_events' = events0 + 1
        /\ blk' = [NoBlk EXCEPT !.block = TRUE, !.ran = TRUE, !.entryFin = finished,
                                !.changed = buffer_changed, !.req = playback_position,
                                !.bound = EmptyBuffer, !.gatePos = pos0, !.gateFin = fin0,
                                !.wasFinished = ~runs, !.loopingAt = looping,
                                !.path = IF runs THEN "noBend" ELSE "none",
                                !.adv = IF runs THEN adv ELSE 0,
                                !.fin = IF runs /\ ~looping THEN 1 ELSE 0]
        /\ written' = <<>> /\ pure' = FALSE /\ dry_blocks' = 0
        /\ requested' = NoSeek /\ unbound_seek' = FALSE /\ lingered' = NoLinger
        /\ UNCHANGED <<buffer, looping, pitch_bend, speed_multiplier, pitch_bend_mode>>
        /\ UNCHANGED <<stretchVars, peerVars, handleVars, paramVars, loopVars, aacVars>>

\* ---------------------------------------------------- consumeStreamHandle
\* consumed.fetch_add(1, relaxed): one atomic read-modify-write of the counter.
fetch_add(v) == (v + 1) % HandleModulus
\* The test markConsumed makes on what fetch_add returned (variant first).
AlreadyConsumedPastSecond(old) == old > 1
AlreadyConsumed(old) == old # 0

\* Thread t enters consumeStreamHandle -> markConsumed and performs the
\* fetch_add; what it got back is local to the thread until it acts on it.
markConsumed(t) ==
  /\ caller[t] = NotCalling
  /\ handle_calls < MaxHandleCalls
  /\ caller' = [caller EXCEPT ![t] = consumed]
  /\ consumed' = fetch_add(consumed)
  /\ handle_calls' = handle_calls + 1
  /\ UNCHANGED <<handle_returned, handle_thrown>>
  /\ UNCHANGED <<generatorVars, paramVars, faultVars, loopVars, aacVars>>

\* The call of thread t ends: EValidation out of markConsumed, or the stream
\* returned by consumeStreamHandle.
consumeStreamHandle(t) ==
  /\ caller[t] # NotCalling
  /\ caller' = [caller EXCEPT ![t] = NotCalling]
  /\ IF AlreadyConsumed(caller[t])
     THEN handle_thrown' = handle_thrown + 1 /\ UNCHANGED handle_returned
     ELSE handle_returned' = handle_returned + 1 /\ UNCHANGED handle_thrown
  /\ UNCHANGED <<consumed, handle_calls>>
  /\ UNCHANGED <<generatorVars, paramVars, faultVars, loopVars, aacVars>>

\* One call of buffer_generator_detail::computePitchBendParams.  The function
\* keeps no state, so a behaviour holds one call.
CallComputePitchBendParams(pos, delta, length, loop) ==
  /\ params_in = NoCall
  /\ params_in' = [scaled_position |-> pos, delta |-> delta,
                   buffer_len_no_zero |-> length * MULTIPLIER, looping |-> loop]
  /\ params_out' = computePitchBendParams(pos, delta, length * MULTIPLIER, loop)
  /\ UNCHANGED <<generatorVars, handleVars, faultVars, loopVars, aacVars>>

\* ---------------------------------------------------------- specifications
\* Classic playback: the buffer, playback-position, looping and pitch-bend
\* properties are written in any order between blocks, over every buffer length
\* and every requested position.
NextPlayback ==
  \/ \E b \in Buffers \cup {NoBuffer} : SetBuffer(b)
  \/ \E f \in SeekFrames : SetPlaybackPosition(f)
  \/ \E l \in BOOLEAN : SetLooping(l)
  \/ \E p \in Rates : SetPitchBend(p)
  \/ GenerateBlock

Spec == Init /\ [][NextPlayback]_vars

\* Time-stretch playback: the generator is switched to time-stretch mode and
\* pitch, speed, buffer and playback position are written in any order between
\* blocks; looping stays off.
StretchBuffers == {BLOCK_SIZE + 1}
StretchSeeks == {1}
StretchRates == {Unity, 2 * MULTIPLIER + 1}

NextStretch ==
  \/ \E b \in StretchBuffers : SetBuffer(b)
  \/ \E f \in StretchSeeks : SetPlaybackPosition(f)
  \/ \E p \in StretchRates : SetPitchBend(p)
  \/ \E s \in StretchRates : SetSpeedMultiplier(s)
  \/ SetPitchBendMode("time_stretch")
  \/ GenerateBlock

SpecStretch == Init /\ [][NextStretch]_vars

\* Two generators on one audio thread: this one plays in time-stretch mode at
\* unbent pitch while its speed, buffer and position are written; the second
\* one has its speed written and generates blocks in between.
NextPair ==
  \/ \E b \in StretchBuffers : SetBuffer(b)
  \/ \E f \in StretchSeeks : SetPlaybackPosition(f)
  \/ \E s \in StretchRates : SetSpeedMultiplier(s)
  \/ SetPitchBendMode("time_stretch")
  \/ GenerateBlock
  \/ \E s \in StretchRates : OtherSetSpeedMultiplier(s)
  \/ OtherGenerateBlock

SpecPair == Init /\ [][NextPair]_vars

\* Classic playback with playback-position writes that land between blocks or
\* while a block is being generated.
RaceBuffers == {MaxLen}
RaceFrames == {1, MaxLen - 1}

NextSeekRace ==
  \/ \E b \in RaceBuffers : SetBuffer(b)
  \/ \E f \in RaceFrames : SetPlaybackPosition(f)
  \/ \E p \in Rates : SetPitchBend(p)
  \/ GenerateBlock
  \/ \E f \in RaceFrames : GenerateBlockDuringWrite(f)

SpecSeekRace == Init /\ [][NextSeekRace]_vars

\* Playback in both modes, ended by lingering.
LingerBuffers == {NoBuffer, BLOCK_SIZE + 1}
LingerSeeks == {MaxLen}
LingerRates == {2 * MULTIPLIER + 1}

NextLinger ==
  \/ \E b \in LingerBuffers : SetBuffer(b)
  \/ \E f \in LingerSeeks : SetPlaybackPosition(f)
  \/ SetLooping(TRUE)
  \/ \E p \in LingerRates : SetPitchBend(p)
  \/ \E s \in LingerRates : SetSpeedMultiplier(s)
  \/ \E m \in Modes : SetPitchBendMode(m)
  \/ GenerateBlock
  \/ startGeneratorLingering

SpecLinger == Init /\ [][NextLinger]_vars

\* The stretch paths with an engine that may hand out non-finite samples.
NextNonFinite ==
  \/ \E b \in StretchBuffers : SetBuffer(b)
  \/ \E p \in StretchRates : SetPitchBend(p)
  \/ \E s \in StretchRates : SetSpeedMultiplier(s)
  \/ SetPitchBendMode("time_stretch")
  \/ GenerateBlock
  \/ GenerateBlockNonFinite

SpecNonFinite == Init /\ [][NextNonFinite]_vars

\* The stretch paths over two buffers of different channel counts.
ChannelBuffers == {BLOCK_SIZE, BLOCK_SIZE + 1}

NextChannels ==
  \/ \E b \in ChannelBuffers : SetBuffer(b)
  \/ \E p \in StretchRates : SetPitchBend(p)
  \/ \E s \in StretchRates : SetSpeedMultiplier(s)
  \/ SetPitchBendMode("time_stretch")
  \/ GenerateBlock

SpecChannels == Init /\ [][NextChannels]_vars

\* Classic playback with pitch bends so small that MULTIPLIER * pitch_bend
\* truncates to a position increment of 0 (line 211), next to a slow and a
\* fast one.
SlowRates == {0, 1, 2 * MULTIPLIER + 1}

NextSlow ==
  \/ \E b \in StretchBuffers : SetBuffer(b)
  \/ \E f \in StretchSeeks : SetPlaybackPosition(f)
  \/ \E p \in SlowRates : SetPitchBend(p)
  \/ GenerateBlock

SpecSlow == Init /\ [][NextSlow]_vars

\* ------------------------------------------------- loops, one pass at a time
\* The condition of the chunk-feed loop (lines 310 and 843).
FeedContinues(available_samples, fin) ==
  available_samples >= chunk_size \/ (fin /\ available_samples > 0)
\* samples_to_feed (line 311).
SamplesToFeed(available_samples) ==
  IF available_samples >= chunk_size THEN chunk_size ELSE available_samples
\* Variant: the count of accumulated frames is not updated after a feed.
AvailableAfterKept(available_samples, samples_to_feed) == available_samples
\* available_samples -= samples_to_feed (line 333).
AvailableAfter(available_samples, samples_to_feed) ==
  available_samples - samples_to_feed

\* What receiveSamples may return to the drain loop when nothing is assumed of
\* the engine: any count, also more than the BLOCK_SIZE frames asked for.
AnyReturn == 0 .. (2 * BLOCK_SIZE)
\* The accumulator sizes, positions, advances and lengths the loops are entered with.
LoopAvailable == 0 .. (4 * chunk_size)
LoopLengths == {1, BLOCK_SIZE + 1}
LoopAdvances == {0, BLOCK_SIZE * MULTIPLIER, BLOCK_SIZE * (2 * MULTIPLIER + 1)}

\* Lines 306-310: the chunk-feed loop is reached with the accumulator's frames.
EnterFeedLoop(available_samples, fin) ==
  /\ cur_loop.done
  /\ cur_loop' = [NoLoop EXCEPT !.kind = "feed", !.done = FALSE,
                                !.entry = available_samples,
                                !.available_samples = available_samples,
                                !.finished = fin]
  /\ UNCHANGED <<generatorVars, handleVars, paramVars, faultVars, aacVars>>

\* One pass of the chunk-feed loop (lines 310-341), or leaving it when its
\* condition fails.
FeedPass ==
  /\ cur_loop.kind = "feed" /\ ~cur_loop.done
  /\ IF FeedContinues(cur_loop.available_samples, cur_loop.finished)
     THEN LET samples_to_feed == SamplesToFeed(cur_loop.available_samples)
          IN cur_loop' = [cur_loop EXCEPT
               !.available_samples = AvailableAfter(@, samples_to_feed),
               !.passes = @ + 1,
               !.done = cur_loop.finished /\ samples_to_feed < chunk_size]
     ELSE cur_loop' = [cur_loop EXCEPT !.done = TRUE]
  /\ UNCHANGED <<generatorVars, handleVars, paramVars, faultVars, aacVars>>

\* Lines 349-353: the drain loop is reached.
EnterDrainLoop ==
  /\ cur_loop.done
  /\ cur_loop' = [NoLoop EXCEPT !.kind = "drain", !.done = FALSE,
                                !.received_samples = 1, !.total_received = 0]
  /\ UNCHANGED <<generatorVars, handleVars, paramVars, faultVars, aacVars>>

\* One pass of the drain loop (lines 353-389) in which receiveSamples returns
\* r, or leaving it when its condition fails.
DrainPass(r) ==
  /\ cur_loop.kind = "drain" /\ ~cur_loop.done
  /\ IF DrainContinues(cur_loop.received_samples, cur_loop.total_received)
     THEN cur_loop' = [cur_loop EXCEPT
            !.received_samples = r,
            !.total_received = IF r = 0 THEN @ ELSE @ + r,
            !.passes = @ + 1,
            !.done = (r = 0)]
     ELSE cur_loop' = [cur_loop EXCEPT !.done = TRUE]
  /\ UNCHANGED <<generatorVars, handleVars, paramVars, faultVars, aacVars>>

\* Lines 426-428: the looped-event loop is reached with its count computed.
EnterLoopedLoop(pos, adv, length) ==
  /\ cur_loop.done
  /\ cur_loop' = [NoLoop EXCEPT !.kind = "looped", !.done = FALSE,
                                !.loop_count = LoopCount(pos, adv, length),
                                !.entry = LoopCount(pos, adv, length)]
  /\ UNCHANGED <<generatorVars, handleVars, paramVars, faultVars, aacVars>>

\* One pass of the looped-event loop (lines 428-430), or leaving it.
LoopedPass ==
  /\ cur_loop.kind = "looped" /\ ~cur_loop.done
  /\ IF cur_loop.i < cur_loop.loop_count
     THEN cur_loop' = [cur_loop EXCEPT !.i = @ + 1, !.passes = @ + 1]
     ELSE cur_loop' = [cur_loop EXCEPT !.done = TRUE]
  /\ UNCHANGED <<generatorVars, handleVars, paramVars, faultVars, aacVars>>

\* The three loops entered with every input and run pass by pass, the engine
\* returning whatever it likes to the drain loop.
NextLoops ==
  \/ \E a \in LoopAvailable, f \in BOOLEAN : EnterFeedLoop(a, f)
  \/ FeedPass
  \/ EnterDrainLoop
  \/ \E r \in AnyReturn : DrainPass(r)
  \/ \E len \in LoopLengths, adv \in LoopAdvances :
       \E pos \in {0, len * MULTIPLIER - 1} : EnterLoopedLoop(pos, adv, len)
  \/ LoopedPass

SpecLoops == Init /\ [][NextLoops]_vars

\* ------------------------------------------------- AAC decoders, call by call
\* The constructor of either decoder: a stream is opened at its first frame.
OpenDecoder(kind) ==
  /\ aac.kind = "none"
  /\ aac' = [NoDecoder EXCEPT !.kind = kind]
  /\ UNCHANGED <<generatorVars, handleVars, paramVars, faultVars, loopVars>>

\* The loop of AacDecoder::writeSamplesInterleaved (lines 210-247): every pass
\* has the codec decode its next frame into current_frame_data and copies
\* min(frames in it, frames still wanted) frames from its start.
RECURSIVE AacWriteLoop(_, _, _)
AacWriteLoop(d, frames_written_total, num_frames_to_write) ==
  IF frames_written_total >= num_frames_to_write THEN d
  ELSE IF d.decoded >= StreamFrames THEN d
  ELSE LET frames_in_this_faad_frame == CodecFrameSize
           frames_to_copy_this_iteration ==
             Min(frames_in_this_faad_frame, num_frames_to_write - frames_written_total)
       IN AacWriteLoop(
            [d EXCEPT !.base = d.decoded,
                      !.decoded = @ + frames_in_this_faad_frame,
                      !.delivered = @ \o Frames(d.decoded, frames_to_copy_this_iteration),
                      !.returned = @ + frames_to_copy_this_iteration],
            frames_written_total + frames_to_copy_this_iteration,
            num_frames_to_write)

\* AacDecoder::writeSamplesInterleaved (lines 201-250).
AacWriteSamplesInterleaved(num_frames_to_write) ==
  /\ aac.kind = "faad"
  /\ aac' = IF num_frames_to_write = 0
            THEN [aac EXCEPT !.requested = 0, !.returned = 0]
            ELSE AacWriteLoop([aac EXCEPT !.requested = num_frames_to_write,
                                          !.returned = 0],
                              0, num_frames_to_write)
  /\ UNCHANGED <<generatorVars, handleVars, paramVars, faultVars, loopVars>>

\* The loop of FFmpegAacDecoder::writeSamplesInterleaved (lines 338-436): a pass
\* first copies from the frames held in interleaved_buffer, and when more are
\* wanted receives the codec's next frame into the buffer.
RECURSIVE FFmpegWriteLoop(_, _, _)
FFmpegWriteLoop(d, frames_written_total, num_frames_to_write) ==
  IF frames_written_total >= num_frames_to_write THEN d
  ELSE
    LET frames_to_copy_from_buffer ==
          Min(d.interleaved_buffer_frames_ready, num_frames_to_write - frames_written_total)
        ready == d.interleaved_buffer_frames_ready - frames_to_copy_from_buffer
        d1 == IF d.interleaved_buffer_frames_ready > 0
              THEN [d EXCEPT
                     !.delivered = @ \o Frames(d.base + d.interleaved_buffer_pos,
                                               frames_to_copy_from_buffer),
                     !.returned = @ + frames_to_copy_from_buffer,
                     !.interleaved_buffer_pos =
                        IF ready = 0 THEN 0 ELSE @ + frames_to_copy_from_buffer,
                     !.interleaved_buffer_frames_ready = ready]
              ELSE d
        total1 == frames_written_total + d1.returned - d.returned
    IN IF d.interleaved_buffer_frames_ready > 0 /\ total1 = num_frames_to_write THEN d1
       ELSE IF d1.decoded >= StreamFrames THEN d1
       ELSE FFmpegWriteLoop(
              [d1 EXCEPT !.base = d1.decoded,
                         !.decoded = @ + CodecFrameSize,
                         !.interleaved_buffer_frames_ready = CodecFrameSize,
                         !.interleaved_buffer_pos = 0],
              total1, num_frames_to_write)

\* FFmpegAacDecoder::writeSamplesInterleaved (lines 321-438).
FFmpegWriteSamplesInterleaved(num_frames_to_write) ==
  /\ aac.kind = "ffmpeg"
  /\ aac' = IF num_frames_to_write = 0
            THEN [aac EXCEPT !.requested = 0, !.returned = 0]
            ELSE FFmpegWriteLoop([aac EXCEPT !.requested = num_frames_to_write,
                                             !.returned = 0],
                                 0, num_frames_to_write)
  /\ UNCHANGED <<generatorVars, handleVars, paramVars, faultVars, loopVars>>

\* A decoder of either kind is opened and asked for frames again and again.
NextAac ==
  \/ \E kind \in {"faad", "ffmpeg"} : OpenDecoder(kind)
  \/ \E n \in RequestFrames : AacWriteSamplesInterleaved(n)
  \/ \E n \in RequestFrames : FFmpegWriteSamplesInterleaved(n)

SpecAac == Init /\ [][NextAac]_vars

\* Classic playback at any of the slow rates, looping switched on by the
\* application and off by startGeneratorLingering, with an audio thread that
\* keeps calling generateBlock: a block that can be generated is generated.
NextDrain ==
  \/ \E b \in StretchBuffers : SetBuffer(b)
  \/ \E f \in StretchSeeks : SetPlaybackPosition(f)
  \/ \E p \in SlowRates : SetPitchBend(p)
  \/ SetLooping(TRUE)
  \/ startGeneratorLingering
  \/ GenerateBlock

SpecDrain == Init /\ [][NextDrain]_vars /\ WF_vars(GenerateBlock)

\* Pitch changes in time-stretch mode over a looping buffer, with the audio
\* thread running.
\* A pitch-only block that finds a crossfade processor, and in which that
\* processor hands out frames.  The audio thread generates a block every tick,
\* and a SoundTouch instance that is fed block after block hands out frames
\* once its latency is filled: such a block cannot stay possible again and
\* again without ever happening.
CrossfadeYields ==
  /\ SelectPath = "pitchOnly" /\ crossfade_processor.ex
  /\ GenerateBlock
  /\ blk'.path = "pitchOnly" /\ blk'.gotOld > 0

CrossfadePitches == {1, 2 * MULTIPLIER + 1}

NextCrossfade ==
  \/ \E b \in StretchBuffers : SetBuffer(b)
  \/ \E p \in CrossfadePitches : SetPitchBend(p)
  \/ SetPitchBendMode("time_stretch")
  \/ SetLooping(TRUE)
  \/ GenerateBlock

SpecCrossfade == Init /\ [][NextCrossfade]_vars /\ SF_vars(CrossfadeYields)

\* ------------------------------------------------------------------ claims
BoundLength == getLengthInFrames(blk.bound)
ClampFrame(f, length) == Max(0, Min(f, length - 1))
Generated == blk.ran /\ blk.path # "none"

\* C1: between two seeks / buffer changes the finished event is sent at most
\* once, however many blocks are generated after the end was reached.
C1_FinishedAtMostOnce == finished_events <= 1

\* A block generated after the end was reported, with nothing seeked since.
C1_BlockAfterFinished ==
  blk.ran /\ blk.wasFinished /\ ~blk.changed /\ blk.req = NoSeek /\ finished_events = 1

\* C2: at every block boundary the frame index scaled_position / MULTIPLIER
\* lies in [0, length] of the bound buffer.
C2_PositionInBuffer ==
  reader # NoBuffer =>
    /\ getPosInSamples(scaled_position_in_frames) >= 0
    /\ getPosInSamples(scaled_position_in_frames) <= getLengthInFrames(reader)

\* A looping block that applied a seek beyond the end and then advanced.
C2_SeekPastEndThenAdvance ==
  /\ Generated /\ blk.loopingAt
  /\ blk.req > BoundLength
  /\ scaled_position_in_frames > 0

\* C3: while looping, the looped events of a block number the buffer ends its
\* advance crosses: floor((position + increment * block_size) / (length * MULTIPLIER)).
C3_LoopedCountsCrossings ==
  (Generated /\ blk.loopingAt) =>
    blk.looped = (blk.gatePos + blk.adv) \div (BoundLength * MULTIPLIER)

\* C4: unbent, non-looping playback from frame 0 has written frames
\* 0 .. length-1, once each and in order, when finished fires.
C4_WholeBufferWritten ==
  (pure /\ finished /\ reader # NoBuffer) =>
    written = [i \in 1..getLengthInFrames(reader) |-> i - 1]

\* C5: a non-looping pitch-bend block reads only frames 0 .. length (length
\* being the implicit zero), reports the end in the block whose advance reaches
\* it, and the finished event has then been sent exactly once.
C5_PitchBendBoundary ==
  (blk.path = "pitchBend" /\ ~blk.loopingAt) =>
    /\ blk.reads \subseteq 0..BoundLength
    /\ (blk.gatePos + blk.adv >= BoundLength * MULTIPLIER) => (blk.fin = 1 /\ finished)
    /\ finished_events = (IF finished THEN 1 ELSE 0)

\* A pitch-bend block that starts past frame 0, reads the implicit zero and finishes.
C5_ReadsImplicitZeroAndFinishes ==
  /\ blk.path = "pitchBend" /\ ~blk.loopingAt
  /\ blk.gatePos > 0
  /\ BoundLength \in blk.reads
  /\ blk.fin = 1

\* C6: a block that finds the generator finished, with no seek and no buffer
\* change to apply, runs no path, sends no event and leaves position and flag.
C6_FinishedBlockIsNoOp ==
  (blk.ran /\ blk.entryFin /\ ~blk.changed /\ blk.req = NoSeek) =>
    /\ blk.path = "none"
    /\ blk.looped = 0 /\ blk.fin = 0
    /\ finished
    /\ scaled_position_in_frames = blk.gatePos

\* A finished generator asked for a block after looping was switched on.
C6_FinishedThenLooping ==
  /\ blk.ran /\ blk.entryFin /\ ~blk.changed /\ blk.req = NoSeek
  /\ looping /\ pitch_bend # Unity

\* C7: after generateBlock every output position holds what it held before
\* plus the generator's contribution.
C7_OutputAdditive ==
  blk.block => \A i \in 1..BLOCK_SIZE : blk.out[i].base = blk.pre

\* C8: a seek leaves scaled_position = clamp(frame, 0, length-1) * MULTIPLIER
\* and finished = false.
C8_SeekClamps ==
  (blk.block /\ blk.req # NoSeek /\ blk.bound # NoBuffer) =>
    /\ blk.gatePos = ClampFrame(blk.req, BoundLength) * MULTIPLIER
    /\ blk.gateFin = FALSE

\* A finished generator that is seeked beyond the end of its buffer.
C8_SeekPastEndWhenFinished ==
  blk.block /\ blk.entryFin /\ blk.req > BoundLength /\ blk.bound # NoBuffer

\* C9: in a block whose gate sees a buffer change, before any path runs every
\* processor is cleared, finished is false and the position is the pending
\* playback position clamped into the new buffer, or frame 0.
C9_BufferChangeResets ==
  (blk.block /\ blk.changed /\ blk.bound # NoBuffer) =>
    /\ blk.gateClean
    /\ blk.gateFin = FALSE
    /\ blk.gatePos = (IF blk.req # NoSeek THEN ClampFrame(blk.req, BoundLength) ELSE 0)
                     * MULTIPLIER

\* A buffer change with a pending position, met by four processors holding frames.
C9_ChangeWithAllProcessors ==
  /\ blk.block /\ blk.changed /\ blk.req # NoSeek
  /\ blk.entryHeld = {"pitch", "crossfade", "speed", "combined"}

\* C10: no frame read before a buffer swap is put into an engine or reaches the
\* output in a block after the swap.
C10_NoStaleFrames == ~blk.fedStale /\ ~blk.outStale

C12_WriteAppliedAtNextBlock ==
  (blk.ran /\ blk.owed # NoSeek) => blk.req = blk.owed

\* C13: a block that is neither skipped nor finished runs exactly the path its
\* mode, pitch and speed select: classic -> no-bend at pitch 1, else pitch-bend
\* (speed ignored); time-stretch -> no-bend, pitch-only, speed-only or combined
\* by which of pitch and speed differ from 1.  Other blocks run no path.
C13_PathByModePitchSpeed ==
  blk.block =>
    IF blk.ran /\ ~blk.wasFinished
    THEN /\ pitch_bend_mode = "classic" =>
              (blk.path = "noBend") = (pitch_bend = Unity)
                /\ (blk.path = "pitchBend") = (pitch_bend # Unity)
         /\ pitch_bend_mode = "time_stretch" =>
              /\ (blk.path = "noBend") = (pitch_bend = Unity /\ speed_multiplier = Unity)
              /\ (blk.path = "pitchOnly") = (pitch_bend # Unity /\ speed_multiplier = Unity)
              /\ (blk.path = "speedOnly") = (pitch_bend = Unity /\ speed_multiplier # Unity)
              /\ (blk.path = "combined") = (pitch_bend # Unity /\ speed_multiplier # Unity)
    ELSE blk.path = "none"

\* A classic-mode block at pitch 1 with a speed multiplier other than 1.
C13_ClassicIgnoresSpeed ==
  /\ blk.ran /\ ~blk.wasFinished
  /\ pitch_bend_mode = "classic" /\ speed_multiplier # Unity /\ pitch_bend = Unity
  /\ blk.path = "noBend"

StretchPaths == {"pitchOnly", "speedOnly", "combined"}

\* C14: on every stretch path, a block takes output from the path's engine only
\* when the engine has been fed at least the priming threshold of times since
\* it was last cleared.
C14_NoDrainBeforePrimed ==
  (blk.path \in StretchPaths /\ blk.got > 0) => blk.feeds >= PrimingBlocks

\* C15: when the finished edge fires on the speed-only path, the frames left in
\* the accumulation buffer (fewer than one chunk) are fed to the engine as a
\* final partial chunk: none stays in the buffer.
C15_LeftoverFedAtFinish ==
  (blk.path = "speedOnly" /\ blk.fin = 1) => AccSize(speed_input_accumulator) = 0

\* C16: once primed, a speed-only block that is at least the DryBlocks-th in a
\* row to drain nothing from the engine writes the unprocessed source frames it
\* read to the output instead of leaving silence.
C16_FallbackToSource ==
  (blk.path = "speedOnly" /\ dry_blocks >= DryBlocks /\ blk.reads # {}) =>
    \E i \in 1..BLOCK_SIZE : blk.out[i].lo \in blk.reads

C19_ReconfiguredIffChanged ==
  blk.path = "combined" =>
    (blk.reconf <=> \/ DiffersBy(speed_multiplier, blk.applied.speed, 1, 100)
                    \/ DiffersBy(pitch_bend, blk.applied.pitch, 1, 1000))
\* C20: as long as pitch-only blocks keep being generated, a crossfade
\* processor that exists is eventually destroyed, or replaced by the one a
\* further pitch change creates: none persists for ever.
C20_CrossfadeDiscarded ==
  []<><<blk'.path = "pitchOnly" /\ GenerateBlock>>_vars =>
    (crossfade_processor.ex ~> (~crossfade_processor.ex \/ blk.madeXf))

\* A pitch-only block that mixed frames of a crossfade processor it found
\* holding input, and destroyed it as the window elapsed.
C20_CrossfadeElapsed ==
  /\ blk.path = "pitchOnly" /\ ~blk.changed /\ ~blk.madeXf
  /\ "crossfade" \in blk.entryHeld /\ blk.gotOld > 0
  /\ ~crossfade_processor.ex /\ crossfade_samples_remaining = 0

\* The processor of a stretch path, by the name HeldAtEntry gives it.
EngineOf(path) ==
  IF path = "pitchOnly" THEN "pitch" ELSE IF path = "speedOnly" THEN "speed" ELSE "combined"

\* C21: a block on the steady-state path (no buffer change, and on a stretch
\* path the processor existed and held input as the block started) performs no
\* file or console I/O and allocates no heap memory.
C21_NoIoNoAllocation ==
  (blk.ran /\ ~blk.wasFinished /\ ~blk.changed
     /\ (blk.path \in StretchPaths => EngineOf(blk.path) \in blk.entryHeld)) =>
    PathEffects(blk.path) = {}

\* C22: on every time-stretch path, a non-finite sample the engine returns does
\* not reach the output block.
C22_NonFiniteNeverMixed ==
  (blk.path \in StretchPaths /\ blk.engineBad) => ~blk.nonFinite

\* C23: a playback-position write made while no buffer is assigned is rejected
\* when it is made: no later block applies it, so it moves neither the position
\* nor the finished flag.
C23_UnboundSeekRejected ==
  (blk.block /\ blk.req # NoSeek) => ~blk.reqUnbound

\* C24: startGeneratorLingering leaves looping off and, with a buffer assigned,
\* reports max(0, length - position) frames divided by the rate at which the
\* position advances (the speed multiplier in time-stretch mode, the pitch bend
\* in classic mode); the step changes neither the position nor the finished flag.
C24_LingerTimeout ==
  [][startGeneratorLingering =>
       /\ ~looping'
       /\ buffer # NoBuffer =>
            lingered'.num * PositionIncrement =
              Max(0, getLengthInFrames(buffer) - getPlaybackPosition) * MULTIPLIER
                * lingered'.den
       /\ UNCHANGED <<scaled_position_in_frames, finished>>]_vars

\* Lingering started mid-buffer in time-stretch mode with speed and pitch that
\* differ: frames remain and the timeout is divided by the speed.
C24_LingeredMidBuffer ==
  /\ lingered.called /\ lingered.num > 0 /\ ~looping
  /\ pitch_bend_mode = "time_stretch" /\ speed_multiplier # pitch_bend
  /\ lingered.den = speed_multiplier

\* The block's advance reaches past the last frame of the bound buffer.
CrossesEnd ==
  blk.gatePos + blk.adv >= getLengthInFrames(blk.bound) * MULTIPLIER

\* C25: a block that applies no seek and no buffer change never moves the frame
\* index backwards, unless it is a looping block whose advance crosses the end.
C25_FrameIndexMonotonic ==
  (blk.block /\ blk.bound # NoBuffer /\ ~blk.changed /\ blk.req = NoSeek
     /\ ~(blk.loopingAt /\ CrossesEnd)) =>
    getPosInSamples(scaled_position_in_frames) >= getPosInSamples(blk.gatePos)

\* A non-looping block that finished playback, and a looping block that stayed
\* inside the buffer: both moved the frame index forward.
C25_ForwardAtEndAndInLoop ==
  /\ blk.ran /\ ~blk.changed /\ blk.req = NoSeek
  /\ \/ blk.fin = 1
     \/ blk.loopingAt /\ ~CrossesEnd
  /\ getPosInSamples(scaled_position_in_frames) > getPosInSamples(blk.gatePos)

\* The scenario: a buffer of MaxLen frames played from frame 0 at pitch 1
\* without looping, and a request for blocks that cover less than half of it
\* (10 blocks of 1024 frames of a 48000-frame buffer).
ScenarioBuffer == MaxLen
ScenarioBlocks == MaxLen \div (2 * BLOCK_SIZE)
InScenario == pure /\ reader = ScenarioBuffer /\ ~looping

\* C26 as stated: once the requested blocks have been generated, the finished
\* event has fired exactly once.
C26_FinishedWithinRequestedBlocks ==
  (InScenario /\ blk.ran /\ Len(written) = ScenarioBlocks * BLOCK_SIZE) =>
    finished_events = 1

\* C26: in the scenario the finished event fires exactly once, in the block
\* that brings the frame index to the length of the buffer, which is not among
\* the requested blocks; every block after it leaves the output at zero.
C26_FinishedOnceAtEnd ==
  InScenario =>
    /\ finished_events = (IF finished THEN 1 ELSE 0)
    /\ finished <=>
         getPosInSamples(scaled_position_in_frames) = getLengthInFrames(ScenarioBuffer)
    /\ Len(written) <= ScenarioBlocks * BLOCK_SIZE => finished_events = 0
    /\ blk.fin = 1 => getPosInSamples(blk.gatePos) < getLengthInFrames(ScenarioBuffer)
    /\ (blk.ran /\ blk.wasFinished) =>
         \A i \in 1..BLOCK_SIZE : blk.out[i] = [base |-> 0, lo |-> NoTap, w2 |-> 0]

\* A block generated after the scenario's playback has finished.
C26_BlockAfterFinished ==
  InScenario /\ blk.ran /\ blk.wasFinished /\ finished_events = 1 /\ blk.pre # 0

\* ------------------------------------------------------------ StreamHandle
\* Several threads consume the same handle, their calls interleaved in every
\* order, up to one call past the wrap of the counter.
NextHandle ==
  \/ \E t \in Callers : markConsumed(t)
  \/ \E t \in Callers : consumeStreamHandle(t)

SpecHandle == Init /\ [][NextHandle]_vars

\* Calls in flight that will return the stream / that will throw.
Succeeding == Cardinality({t \in Callers : caller[t] # NotCalling /\ ~AlreadyConsumed(caller[t])})
Throwing == Cardinality({t \in Callers : caller[t] # NotCalling /\ AlreadyConsumed(caller[t])})

\* C27: while fewer calls than the counter has values were made on one handle,
\* in any interleaving exactly one of them returns the stream (none before the
\* first call) and every other call throws the validation error.
C27_ConsumedAtMostOnce ==
  handle_calls < HandleModulus =>
    /\ handle_returned + Succeeding = (IF handle_calls > 0 THEN 1 ELSE 0)
    /\ handle_thrown + Throwing = handle_calls - (handle_returned + Succeeding)

\* Every call but one threw, the counter one short of its wrap, no call left
\* in flight.
C27_AllButOneThrew ==
  /\ handle_calls = HandleModulus - 1
  /\ \A t \in Callers : caller[t] = NotCalling
  /\ handle_returned = 1
  /\ handle_thrown = handle_calls - 1

\* C28: a non-looping block ends playback only if its advance reaches the end
\* of the data: position + increment * block_size >= length * MULTIPLIER.
C28_FinishedOnlyAtEnd ==
  (Generated /\ ~blk.loopingAt /\ blk.fin = 1) => CrossesEnd

\* The frames of the bound buffer that the block's advance passes over.
AdvancedOver ==
  {f \in 0..(BoundLength - 1) :
     /\ f >= getPosInSamples(blk.gatePos)
     /\ f * MULTIPLIER < blk.gatePos + blk.adv}

\* C29: a non-looping block of a time-stretch path reads, for its engine,
\* exactly the source frames that its advance passes over, at any speed.
C29_FeedsWhatItAdvancesOver ==
  (blk.ran /\ blk.path \in StretchPaths /\ ~blk.loopingAt) => blk.reads = AdvancedOver

\* C30: after a block of the combined path has set up its processor, the
\* processor's tempo and pitch are the requested speed and pitch to within the
\* reconfiguration epsilons, the block that creates the processor included.
C30_EngineSetAsRequested ==
  (blk.ran /\ blk.path = "combined") =>
    /\ ~DiffersBy(speed_multiplier, combined_applied.speed, 1, 100)
    /\ ~DiffersBy(pitch_bend, combined_applied.pitch, 1, 1000)

\* The processor the last block's path fed and drained.
PathEngine ==
  IF blk.path = "pitchOnly" THEN soundtouch_processor
  ELSE IF blk.path = "speedOnly" THEN speed_processor
  ELSE combined_processor

\* C31: the processor that a stretch block fed or drained is set to the channel
\* count of the buffer the block read from, also after the buffer was replaced
\* by one with another channel count.
C31_EngineChannelsMatchBuffer ==
  (blk.ran /\ blk.path \in StretchPaths) => PathEngine.ch = getChannels(blk.bound)

\* ------------------------------------------------- computePitchBendParams
\* The function on its own: every position up to one frame past the longest
\* buffer, every increment from 0 to the fast ratio, every buffer length.
ParamPositions == 0..((MaxLen + 1) * MULTIPLIER)
ParamDeltas == 0..(2 * MULTIPLIER + 1)

NextParams ==
  \E pos \in ParamPositions, delta \in ParamDeltas, length \in Buffers, loop \in BOOLEAN :
    CallComputePitchBendParams(pos, delta, length, loop)

SpecParams == Init /\ [][NextParams]_vars

\* Iteration i (from 0) of the interpolation loop has its lower tap on a real frame.
LowerTapInData(i) ==
  (params_in.scaled_position + i * params_in.delta) \div MULTIPLIER
    <= params_in.buffer_len_no_zero \div MULTIPLIER - 1
\* The largest n, up to the block size, whose iterations all keep the lower
\* tap on a real frame.
LargestIterations ==
  CHOOSE n \in 0..BLOCK_SIZE :
    /\ \A i \in 0..(n - 1) : LowerTapInData(i)
    /\ n < BLOCK_SIZE => ~LowerTapInData(n)
Called == params_in # NoCall

\* C32: with looping off, an increment above 0 and a position before the end,
\* the iterations returned are the block size or, if that is less, the largest
\* count whose lower taps all stay on real frames; with increment 0 or a
\* position at or past the end they are 0.
C32_IterationsAreLargest ==
  (Called /\ ~params_in.looping) =>
    params_out.iterations =
      (IF params_in.delta = 0 \/ params_in.scaled_position >= params_in.buffer_len_no_zero
       THEN 0 ELSE LargestIterations)

\* Frames of the last block's output that came out of the engine.
EngineFramesWritten == Cardinality({i \in 1..BLOCK_SIZE : blk.out[i].lo = EngineTap})

\* C33: a speed-only block takes at most a block of frames out of the engine,
\* and every frame it takes is added to the output.
C33_DrainedFramesAllWritten ==
  blk.path = "speedOnly" =>
    /\ blk.got <= BLOCK_SIZE
    /\ EngineFramesWritten = blk.got

\* A speed-only block that drained a full block, and one that drained less.
C33_DrainedFullBlock == blk.path = "speedOnly" /\ blk.got = BLOCK_SIZE

\* Positions of the last block's output that a generation path added a frame to.
FramesWritten == Cardinality({i \in 1..BLOCK_SIZE : blk.out[i].lo # NoTap})
ClassicPaths == {"noBend", "pitchBend"}

C35_FinishedIffAtEnd ==
  reader # NoBuffer =>
    (finished <=> scaled_position_in_frames = getLengthInFrames(reader) * MULTIPLIER)

\* A block that ended playback and left the position one past the end.
C35_FinishedAtEnd ==
  /\ blk.ran /\ blk.fin = 1 /\ finished
  /\ scaled_position_in_frames = getLengthInFrames(reader) * MULTIPLIER

\* length - position - 1 as the paths compute it when the block they read
\* would pass the end, on mathematical integers.
ReadLengthNearEnd == BoundLength - getPosInSamples(blk.gatePos) - 1

\* C36: a generation path that runs with looping off on a buffer of at least
\* one frame starts at a frame of at most length - 1; where the read is
\* shortened, length - position - 1 is within 0 .. BLOCK_SIZE.
C36_ReadLengthInRange ==
  (Generated /\ ~blk.loopingAt /\ blk.bound # NoBuffer) =>
    /\ getPosInSamples(blk.gatePos) <= BoundLength - 1
    /\ NearEnd(blk.gatePos, BoundLength, FALSE) =>
         (ReadLengthNearEnd >= 0 /\ ReadLengthNearEnd <= BLOCK_SIZE)

\* A non-looping block that started on the last frame of its buffer, reached
\* by a seek beyond the end.
C36_RunsOnLastFrame ==
  /\ Generated /\ ~blk.loopingAt /\ blk.req > BoundLength
  /\ getPosInSamples(blk.gatePos) = BoundLength - 1

\* ------------------------------------------------------- zero-frame buffer
\* A zero-frame buffer is assigned, positions are requested and looping is
\* switched while blocks are generated.
NextEmpty ==
  \/ SetBuffer(EmptyBuffer)
  \/ \E f \in SeekFrames : SetPlaybackPosition(f)
  \/ \E l \in BOOLEAN : SetLooping(l)
  \/ GenerateBlockEmpty

SpecEmpty == Init /\ [][NextEmpty]_vars

\* C37: with a zero-frame buffer bound, no block evaluates length - 1 or
\* divides by zero, and the position is 0 at every block boundary.
C37_EmptyBufferHarmless ==
  reader = EmptyBuffer => (fault = {} /\ scaled_position_in_frames = 0)

\* Looping is off, a buffer is bound and assigned, and the pitch bend gives a
\* position increment of at least 1 per frame.
CanDrain == reader # NoBuffer /\ buffer = reader /\ ~looping /\ pitch_bend >= 1

\* C38: once nothing but generateBlock is called any more (no seek, no buffer
\* change, no property write), with looping off, a buffer bound and a position
\* increment of at least 1, the finished event has eventually been sent.
C38_EventuallyFinished ==
  <>[][GenerateBlock]_vars => <>[](CanDrain => (finished /\ finished_events = 1))

\* A block at the slowest advancing rate, begun past the start of the buffer
\* with looping off, ended playback and sent the event.
C38_FinishedSlowly ==
  /\ blk.ran /\ blk.fin = 1 /\ finished /\ pitch_bend = 1 /\ blk.gatePos > 0

\* The most passes a loop can make from the values it was entered with: one per
\* whole chunk and one for a leftover (feed), one per frame of the block
\* (drain), loop_count (looped event).
PassBound ==
  IF cur_loop.kind = "feed" THEN cur_loop.entry \div chunk_size + 1
  ELSE IF cur_loop.kind = "drain" THEN BLOCK_SIZE
  ELSE cur_loop.entry

\* C39: the chunk-feed loop, the drain loop and the looped-event loop never make
\* more passes than a bound fixed when the loop is entered, whatever the engine
\* returns; every pass is counted, so each loop is left.
C39_LoopsBounded == cur_loop.passes <= PassBound

\* A drain loop that took one frame per pass was left after a pass per frame of the block.
C39_DrainLeftAfterBlock ==
  /\ cur_loop.kind = "drain" /\ cur_loop.done
  /\ cur_loop.passes = BLOCK_SIZE /\ cur_loop.total_received = BLOCK_SIZE

\* C40: over the calls made so far the caller has received the stream's PCM
\* frames in order with none missing or repeated, every frame the codec has
\* produced is either delivered or still held for the next call, and the last
\* call wrote no more frames than it was asked for.
C40_EveryFrameOnceInOrder ==
  /\ aac.delivered = Frames(0, Len(aac.delivered))
  /\ Len(aac.delivered) + aac.interleaved_buffer_frames_ready = aac.decoded
  /\ aac.returned <= aac.requested

\* The same for the decoder built on FFmpeg alone, which keeps the rest of a
\* codec frame in interleaved_buffer.
FFmpegEveryFrameOnceInOrder == aac.kind = "ffmpeg" => C40_EveryFrameOnceInOrder
\* The FFmpeg decoder was asked for one frame and holds the rest of the codec frame.
FFmpegHoldsRest ==
  /\ aac.kind = "ffmpeg" /\ aac.requested = 1 /\ aac.returned = 1
  /\ aac.interleaved_buffer_frames_ready = CodecFrameSize - 1
====
